---- MODULE Spec2Model ----
(***************************************************************************)
(* Message-record lifecycle of the staff dashboard (src/index.js): the     *)
(* flat-file record store (loadMessages / saveMessages), the session gate  *)
(* (requireAuth, login, logout) and the four message routes (send, list,   *)
(* edit, delete), each split at its awaits.  The remote chat platform and  *)
(* the file system are the environment: a remote call or a file write may  *)
(* fail, a remote message may be deleted out-of-band.                      *)
(***************************************************************************)
EXTENDS Integers, Sequences, FiniteSets, TLC

\* ------------------------------------------------------------- bounds
MaxRequests == 2    \* requests that arrive in a run
MaxProcs == 2       \* request slots (requests that can be in flight)

Procs == 1..MaxProcs

\* ------------------------------------------------------------- values
NULL == "<null>"

\* JS truthiness of a string-or-null request field (title, color, channelId).
Truthy(v) == v \notin {NULL, ""}

\* Message content is a sequence of characters, so that trimming is computed.
\* An absent content takes the same branch as "" everywhere (both are falsy).
\* The request bodies are drawn from these sets.
SendContents == { <<>>, <<"a">> }
EditContents == { <<>>, <<"a", " ">>, <<"b">> }
\* <<title, color>> as a send and as an edit carry them.
SendStyles   == { <<NULL, NULL>>, <<"t1", "#1">> }
EditStyles   == { <<NULL, NULL>>, <<"", "#2">>, <<"t2", NULL>>, <<"t2", "#2">> }
KnownChannel == "c1"
MessageIds   == 1..2

RECURSIVE TrimStart(_)
TrimStart(s) == IF s # <<>> /\ Head(s) = " " THEN TrimStart(Tail(s)) ELSE s

RECURSIVE TrimEnd(_)
TrimEnd(s) ==
    IF s # <<>> /\ s[Len(s)] = " " THEN TrimEnd(SubSeq(s, 1, Len(s) - 1)) ELSE s

\* String.prototype.trim
Trim(s) == TrimEnd(TrimStart(s))

\* JS truthiness of the content string.
ContentTruthy(c) == c # <<>>

\* The channel object the bot session caches for a channel id.
ChannelName(c) == "general"
GuildId(c)     == "g1"
GuildName(c)   == "guild"

\* bcrypt, as far as the login needs it: compare(pw, hash(pw')) iff pw = pw'.
BcryptHash(pw) == <<"bcrypt", pw>>
BcryptCompare(pw, hash) == hash = BcryptHash(pw)

\* A request field that is not a string (a number, an object): bcrypt.compare
\* throws on it.
NotAString == "<number>"
BcryptThrows(pw) == pw = NotAString

\* STAFF_USERS after getStaffUsers() (development default).
StaffUsers == [u \in {"staff"} |-> BcryptHash("staff123")]
Usernames  == { "", "staff", "eve" }
Passwords  == { "", "staff123", "bad", NotAString }

\* ------------------------------------------------------------- state
VARIABLES
    file,       \* messages.json: [kind: "missing" | "garbage" | "json", data]
    remote,     \* the platform's messages, indexed by the id it assigned
    cache,      \* client.channels.cache: the channel ids the bot session sees
    now,        \* the wall clock
    session,    \* req.session of the one browser session
    pc,         \* per request slot: where the handler stands
    req,        \* per request slot: the request (route, params, body)
    loc,        \* per request slot: the handler's local variables
    resp,       \* per request slot: the response sent
    pre,        \* per request slot: file and remote when the request arrived
    calls,      \* per request slot: the remote and file calls the handler made
    arrived,    \* requests that have arrived so far
    inFlightMax \* how many requests the run lets be in flight at once

vars == <<file, remote, cache, now, session, pc, req, loc, resp, pre, calls, arrived, inFlightMax>>
runVars == <<arrived, inFlightMax>>
envVars == <<remote, cache, now, session, runVars>>

NoFile == [kind |-> "missing", data |-> <<>>]
Garbage == [kind |-> "garbage", data |-> <<>>]
Json(ms) == [kind |-> "json", data |-> ms]

NoSession == [authenticated |-> FALSE, username |-> NULL]

NoReq == [op |-> "none", messageId |-> 0, channelId |-> NULL, content |-> <<>>,
          useEmbed |-> FALSE, title |-> NULL, color |-> NULL,
          username |-> "", password |-> ""]
NoLoc == [messages |-> <<>>, messageIndex |-> 0, message |-> 0,
          out |-> <<>>, ok |-> <<>>]
NoResp == [status |-> 0, body |-> <<>>]
NoPre == [file |-> NoFile, remote |-> <<>>, session |-> NoSession]

InitState ==
    /\ file = NoFile
    /\ remote = <<>>
    /\ cache = {KnownChannel}
    /\ now = 0
    /\ session = NoSession
    /\ pc = [p \in Procs |-> "idle"]
    /\ req = [p \in Procs |-> NoReq]
    /\ loc = [p \in Procs |-> NoLoc]
    /\ resp = [p \in Procs |-> NoResp]
    /\ pre = [p \in Procs |-> NoPre]
    /\ calls = [p \in Procs |-> <<>>]
    /\ arrived = 0

\* Requests served one at a time.
Init == InitState /\ inFlightMax = 1

InFlight == {p \in Procs : pc[p] # "idle"}

\* The environment moves while no handler is in flight: a handler reads the
\* session and the channel cache synchronously on entry, and a remote change
\* under a handler in flight shows as the rejection of its next remote call.
\* Once the run's last request has arrived, nothing is left to observe a move.
Quiet == InFlight = {} /\ arrived < MaxRequests

\* ------------------------------------------------------------- record store

\* JSON.parse(await fs.readFile(MESSAGES_FILE, 'utf8')): throws when the file
\* is missing or does not parse.
readAndParse(f) == [threw |-> f.kind # "json", value |-> f.data]

\* loadMessages without its catch: the read or parse error reaches the route.
loadMessagesRethrows(f) == readAndParse(f)

\* loadMessages: the parsed array, or [] when the read or the parse throws.
loadMessages(f) ==
    IF readAndParse(f).threw
      THEN [threw |-> FALSE, value |-> <<>>]
      ELSE [threw |-> FALSE, value |-> readAndParse(f).value]

\* ------------------------------------------------------------- helpers
Goto(p, l) == pc' = [pc EXCEPT ![p] = l]

Respond(p, st, b) ==
    /\ pc' = [pc EXCEPT ![p] = "done"]
    /\ resp' = [resp EXCEPT ![p] = [status |-> st, body |-> b]]

\* A request arrives in slot p.
Arrive(p, r) ==
    /\ pc[p] = "idle"
    /\ \A q \in Procs : q < p => pc[q] # "idle"
    /\ \A q \in Procs : req[q].op \notin {"login", "logout"}
    /\ Cardinality(InFlight) < inFlightMax
    /\ arrived < MaxRequests
    /\ arrived' = arrived + 1
    /\ UNCHANGED inFlightMax
    /\ req' = [req EXCEPT ![p] = r]
    /\ pre' = [pre EXCEPT ![p] = [file |-> file, remote |-> remote,
                                  session |-> session]]

\* A login or logout request arrives in slot p; the operator sends it while
\* nothing else of theirs is in flight, and sends nothing else until it is
\* answered.
ArriveSession(p, r) ==
    /\ Quiet
    /\ p = 1
    /\ req' = [req EXCEPT ![p] = r]
    /\ pre' = [pre EXCEPT ![p] = [file |-> file, remote |-> remote,
                                  session |-> session]]
    /\ UNCHANGED runVars

\* The handler in slot p calls a capability of the platform or of fs.
Call(p, c) == calls' = [calls EXCEPT ![p] = Append(@, c)]

\* A gate that lets every session through.
requireAuthOpen == TRUE

\* requireAuth
requireAuth == session.authenticated

\* The body of the 500 answer of each route's catch block.
ErrorBody(op) ==
    CASE op = "send"   -> "Failed to send message"
      [] op = "edit"   -> "Failed to edit message"
      [] op = "delete" -> "Failed to delete message"
      [] op = "channels" -> "Failed to fetch channels"
      [] OTHER         -> "Failed to fetch messages"

\* ------------------------------------------------------------- saveMessages
\* fs.writeFile(MESSAGES_FILE, ...) opens the file with flag 'w', which
\* truncates it, and then writes the serialised array: two steps, either of
\* which can throw into the route's catch block.

\* The open fails (EACCES, ...): the file is as it was.
SaveOpenFail(p) ==
    /\ pc[p] = "save"
    /\ Call(p, "writeFile")
    /\ Respond(p, 500, ErrorBody(req[p].op))
    /\ UNCHANGED <<file, envVars, req, loc, pre>>

\* The open succeeds: the file is now empty, which JSON.parse rejects.
SaveTruncate(p) ==
    /\ pc[p] = "save"
    /\ file' = Garbage
    /\ Call(p, "writeFile")
    /\ Goto(p, "write")
    /\ UNCHANGED <<envVars, req, loc, resp, pre>>

\* The write fails (ENOSPC, ...): the file stays truncated.
SaveWriteFail(p) ==
    /\ pc[p] = "write"
    /\ Respond(p, 500, ErrorBody(req[p].op))
    /\ UNCHANGED <<file, envVars, req, loc, pre, calls>>

\* The write completes; the route answers with what it prepared.
SaveWriteOk(p) ==
    /\ pc[p] = "write"
    /\ file' = Json(loc[p].out)
    /\ Respond(p, 200, loc[p].ok)
    /\ UNCHANGED <<envVars, req, loc, pre, calls>>

\* requireAuth answers before the route reads the body.
Unauthorized(p, op) ==
    /\ ~requireAuth
    /\ Arrive(p, [NoReq EXCEPT !.op = op])
    /\ Respond(p, 401, "Authentication required")
    /\ UNCHANGED <<file, remote, cache, now, session, loc, calls>>

\* ------------------------------------------------------------- GET /api/channels
\* Synchronous: 503 while the bot session is not ready (client.user unset),
\* else the text channels of the guild caches.
ListChannels(p) ==
    \/ Unauthorized(p, "channels")
    \/ \E botReady \in BOOLEAN :
        /\ requireAuth
        /\ Arrive(p, [NoReq EXCEPT !.op = "channels"])
        /\ IF ~botReady
             THEN Respond(p, 503, "Bot not ready")
             ELSE Respond(p, 200, cache)
        /\ UNCHANGED <<file, remote, cache, now, session, loc, calls>>

\* ------------------------------------------------------------- POST /api/send-message
\* The bodies a send request carries: every combination for the known channel,
\* one body of blanks only, and one body without a channel.
SendBodies ==
    { [NoReq EXCEPT !.op = "send", !.channelId = KnownChannel, !.content = t,
                    !.useEmbed = e, !.title = st[1], !.color = st[2]] :
        t \in SendContents, e \in BOOLEAN, st \in SendStyles }
    \cup { [NoReq EXCEPT !.op = "send", !.channelId = KnownChannel,
                         !.content = <<" ">>],
           [NoReq EXCEPT !.op = "send", !.content = <<"a">>] }

\* requireAuth, the validation and the channel lookup: all synchronous.
SendMessageBegin(p) ==
    \/ Unauthorized(p, "send")
    \/ \E r \in SendBodies :
        /\ requireAuth
        /\ Arrive(p, r)
        /\ IF ~Truthy(r.channelId) \/ ~ContentTruthy(r.content)
             THEN Respond(p, 400, "Channel ID and content are required")
           ELSE IF r.channelId \notin cache
             THEN Respond(p, 404, "Channel not found")
           ELSE Goto(p, "send_remote") /\ UNCHANGED resp
        /\ UNCHANGED <<file, remote, cache, now, session, loc, calls>>

\* The payload of channel.send: an embed when useEmbed, else the bare content.
NoEmbed == [present |-> FALSE, description |-> <<>>, title |-> NULL, color |-> NULL]
EmbedOf(content, title, color) ==
    [present |-> TRUE, description |-> content,
     title |-> IF Truthy(title) THEN title ELSE NULL,
     color |-> IF Truthy(color) THEN color ELSE NULL]

SentMessage(r) ==
    IF r.useEmbed
      THEN [channelId |-> r.channelId, content |-> <<>>,
            embed |-> EmbedOf(r.content, r.title, r.color), exists |-> TRUE]
      ELSE [channelId |-> r.channelId, content |-> r.content,
            embed |-> NoEmbed, exists |-> TRUE]

\* await channel.send(...) resolves: the platform creates the message and
\* assigns its id.
SendRemoteOk(p) ==
    /\ pc[p] = "send_remote"
    /\ remote' = Append(remote, SentMessage(req[p]))
    /\ loc' = [loc EXCEPT ![p].message = Len(remote) + 1]
    /\ Call(p, "send")
    /\ Goto(p, "send_load")
    /\ UNCHANGED <<file, cache, now, session, runVars, req, resp, pre>>

\* The rejection swallowed: the route goes on to store a record.
SendRemoteFailIgnored(p) ==
    /\ pc[p] = "send_remote"
    /\ Call(p, "send")
    /\ Goto(p, "send_load")
    /\ UNCHANGED <<file, envVars, req, loc, resp, pre>>

\* await channel.send(...) rejects (permissions, network, invalid embed).
SendRemoteFail(p) ==
    /\ pc[p] = "send_remote"
    /\ Call(p, "send")
    /\ Respond(p, 500, ErrorBody("send"))
    /\ UNCHANGED <<file, envVars, req, loc, pre>>

\* The record with the title and color stored whether or not useEmbed is set.
messageDataKeepsStyle(r, id) ==
    [id |-> id,
     channelId |-> r.channelId,
     channelName |-> ChannelName(r.channelId),
     guildId |-> GuildId(r.channelId),
     guildName |-> GuildName(r.channelId),
     content |-> r.content,
     title |-> IF Truthy(r.title) THEN r.title ELSE NULL,
     color |-> IF Truthy(r.color) THEN r.color ELSE NULL,
     timestamp |-> now,
     isEmbed |-> r.useEmbed]

messageData(r, id) ==
    [id |-> id,
     channelId |-> r.channelId,
     channelName |-> ChannelName(r.channelId),
     guildId |-> GuildId(r.channelId),
     guildName |-> GuildName(r.channelId),
     content |-> r.content,
     title |-> IF r.useEmbed /\ Truthy(r.title) THEN r.title ELSE NULL,
     color |-> IF r.useEmbed /\ Truthy(r.color) THEN r.color ELSE NULL,
     timestamp |-> now,
     isEmbed |-> r.useEmbed]

\* The record built but not pushed before the save.
SendLoadNoPush(p) ==
    /\ pc[p] = "send_load"
    /\ Call(p, "readFile")
    /\ LET loaded == loadMessages(file)
           messages == loaded.value
           md == messageData(req[p], loc[p].message)
       IN /\ loc' = [loc EXCEPT
                       ![p].messages = messages,
                       ![p].out = messages,
                       ![p].ok = [success |-> TRUE, messageId |-> md.id,
                                  messageData |-> md]]
          /\ Goto(p, "save")
          /\ UNCHANGED resp
    /\ UNCHANGED <<file, envVars, req, pre>>

\* The record a send with the arguments of r stores, apart from its id and
\* timestamp.
SameArguments(m, r) ==
    /\ "lastEdited" \notin DOMAIN m
    /\ [m EXCEPT !.id = 0, !.timestamp = 0] =
           [messageData(r, 0) EXCEPT !.timestamp = 0]

\* A send that deduplicates: the record is not pushed when the store already
\* holds one sent with the same arguments.
SendLoadDeduplicates(p) ==
    /\ pc[p] = "send_load"
    /\ Call(p, "readFile")
    /\ LET loaded == loadMessages(file)
           messages == loaded.value
           md == messageData(req[p], loc[p].message)
           dup == \E i \in 1..Len(messages) : SameArguments(messages[i], req[p])
       IN /\ loc' = [loc EXCEPT
                       ![p].messages = messages,
                       ![p].out = IF dup THEN messages ELSE Append(messages, md),
                       ![p].ok = [success |-> TRUE, messageId |-> md.id,
                                  messageData |-> md]]
          /\ Goto(p, "save")
          /\ UNCHANGED resp
    /\ UNCHANGED <<file, envVars, req, pre>>

\* await loadMessages() resolves; the record is built and pushed.
SendLoad(p) ==
    /\ pc[p] = "send_load"
    /\ Call(p, "readFile")
    /\ LET loaded == loadMessages(file)
           messages == loaded.value
           md == messageData(req[p], loc[p].message)
       IN IF loaded.threw
            THEN Respond(p, 500, ErrorBody("send")) /\ UNCHANGED loc
            ELSE /\ loc' = [loc EXCEPT
                             ![p].messages = messages,
                             ![p].out = Append(messages, md),
                             ![p].ok = [success |-> TRUE, messageId |-> md.id,
                                        messageData |-> md]]
                 /\ Goto(p, "save")
                 /\ UNCHANGED resp
    /\ UNCHANGED <<file, envVars, req, pre>>

\* ------------------------------------------------------------- GET /api/messages
ListMessagesBegin(p) ==
    \/ Unauthorized(p, "list")
    \/ /\ requireAuth
       /\ Arrive(p, [NoReq EXCEPT !.op = "list"])
       /\ Goto(p, "list_load")
       /\ UNCHANGED <<file, remote, cache, now, session, loc, resp, calls>>

ListMessagesLoad(p) ==
    /\ pc[p] = "list_load"
    /\ Call(p, "readFile")
    /\ LET loaded == loadMessages(file)
       IN IF loaded.threw
            THEN Respond(p, 500, ErrorBody("list"))
            ELSE Respond(p, 200, loaded.value)
    /\ UNCHANGED <<file, envVars, req, loc, pre>>

\* ------------------------------------------------------------- PUT /api/edit-message/:messageId
EditBodies ==
    { [NoReq EXCEPT !.op = "edit", !.messageId = m, !.content = t,
                    !.title = st[1], !.color = st[2]] :
        m \in MessageIds, t \in EditContents, st \in EditStyles }

\* requireAuth and the content check.
EditMessageBegin(p) ==
    \/ Unauthorized(p, "edit")
    \/ \E r \in EditBodies :
        /\ requireAuth
        /\ Arrive(p, r)
        /\ IF ~ContentTruthy(r.content)
             THEN Respond(p, 400, "Content is required")
           ELSE Goto(p, "edit_load") /\ UNCHANGED resp
        /\ UNCHANGED <<file, remote, cache, now, session, loc, calls>>

\* A lookup that falls back to the first record when the id is not found.
findIndexOrFirst(ms, id) ==
    IF \E i \in 1..Len(ms) : ms[i].id = id
      THEN CHOOSE i \in 1..Len(ms) :
               /\ ms[i].id = id
               /\ \A j \in 1..(i - 1) : ms[j].id # id
      ELSE IF ms = <<>> THEN 0 ELSE 1

\* Array.prototype.findIndex(msg => msg.id === id), 1-based; 0 stands for -1.
findIndex(ms, id) ==
    IF \E i \in 1..Len(ms) : ms[i].id = id
      THEN CHOOSE i \in 1..Len(ms) :
               /\ ms[i].id = id
               /\ \A j \in 1..(i - 1) : ms[j].id # id
      ELSE 0

\* await loadMessages() resolves; the record and its channel are looked up.
EditLoad(p) ==
    /\ pc[p] = "edit_load"
    /\ Call(p, "readFile")
    /\ LET loaded == loadMessages(file)
           messages == loaded.value
           messageIndex == findIndex(messages, req[p].messageId)
       IN IF loaded.threw
            THEN Respond(p, 500, ErrorBody("edit")) /\ UNCHANGED loc
          ELSE IF messageIndex = 0
            THEN Respond(p, 404, "Message not found in storage") /\ UNCHANGED loc
          ELSE IF messages[messageIndex].channelId \notin cache
            THEN Respond(p, 404, "Channel not found") /\ UNCHANGED loc
          ELSE /\ loc' = [loc EXCEPT ![p].messages = messages,
                                     ![p].messageIndex = messageIndex]
               /\ Goto(p, "edit_fetch")
               /\ UNCHANGED resp
    /\ UNCHANGED <<file, envVars, req, pre>>

RemoteExists(id) == id \in 1..Len(remote) /\ remote[id].exists

\* channel.messages.fetch(id) resolves with the message when the platform still
\* has it, and rejects otherwise (unknown message, network): it never resolves
\* with a falsy value.
FetchOutcomes(id) == IF RemoteExists(id) THEN {"message", "reject"} ELSE {"reject"}

\* await channel.messages.fetch(messageId)
EditFetch(p) ==
    /\ pc[p] = "edit_fetch"
    /\ Call(p, "fetch")
    /\ \E discordMessage \in FetchOutcomes(req[p].messageId) :
         IF discordMessage = "reject"
           THEN Respond(p, 500, ErrorBody("edit"))
         ELSE IF discordMessage = "null"
           THEN Respond(p, 404, "Discord message not found")
         ELSE Goto(p, "edit_remote") /\ UNCHANGED resp
    /\ UNCHANGED <<file, envVars, req, loc, pre>>

storedMessage(p) == loc[p].messages[loc[p].messageIndex]

\* Whether the edit goes out as an embed.
EditAsEmbed(stored, r) == stored.isEmbed \/ Truthy(r.title) \/ Truthy(r.color)

\* The call the route makes: discordMessage.edit({ embeds }) or
\* discordMessage.edit(content).
EditCall(stored, r) ==
    IF EditAsEmbed(stored, r) THEN "edit:embeds" ELSE "edit:content"

\* discordMessage.edit patches the remote message: edit({embeds}) replaces its
\* embeds and leaves its text, edit(content) replaces its text.
EditedMessage(m, stored, r) ==
    IF EditAsEmbed(stored, r)
      THEN [m EXCEPT !.embed = EmbedOf(r.content, r.title, r.color)]
      ELSE [m EXCEPT !.content = r.content]

\* The update without the fallback to the stored title and color.
updatedMessageClearing(stored, r) ==
    [lastEdited |-> now] @@
    [stored EXCEPT
        !.content = r.content,
        !.title = r.title,
        !.color = r.color,
        !.isEmbed = Truthy(r.title) \/ Truthy(r.color) \/ stored.isEmbed]

\* The update that leaves isEmbed as it was stored.
updatedMessageKeepsShape(stored, r) ==
    [lastEdited |-> now] @@
    [stored EXCEPT
        !.content = r.content,
        !.title = IF Truthy(r.title) THEN r.title ELSE stored.title,
        !.color = IF Truthy(r.color) THEN r.color ELSE stored.color]

\* The update that also stamps the record anew.
updatedMessageRestamps(stored, r) ==
    [lastEdited |-> now] @@
    [stored EXCEPT
        !.content = r.content,
        !.title = IF Truthy(r.title) THEN r.title ELSE stored.title,
        !.color = IF Truthy(r.color) THEN r.color ELSE stored.color,
        !.timestamp = now,
        !.isEmbed = Truthy(r.title) \/ Truthy(r.color) \/ stored.isEmbed]

\* The record written back at messages[messageIndex].
updatedMessage(stored, r) ==
    [lastEdited |-> now] @@
    [stored EXCEPT
        !.content = r.content,
        !.title = IF Truthy(r.title) THEN r.title ELSE stored.title,
        !.color = IF Truthy(r.color) THEN r.color ELSE stored.color,
        !.isEmbed = Truthy(r.title) \/ Truthy(r.color) \/ stored.isEmbed]

\* An edit that applies its update to the collection as the file holds it at
\* that moment instead of the collection it loaded.
EditRemoteOkReloads(p) ==
    /\ pc[p] = "edit_remote"
    /\ RemoteExists(req[p].messageId)
    /\ remote' = [remote EXCEPT ![req[p].messageId] =
                      EditedMessage(@, storedMessage(p), req[p])]
    /\ Call(p, EditCall(storedMessage(p), req[p]))
    /\ LET um == updatedMessage(storedMessage(p), req[p])
           current == IF findIndex(loadMessages(file).value, req[p].messageId) # 0
                        THEN loadMessages(file).value ELSE loc[p].messages
       IN loc' = [loc EXCEPT
                    ![p].out = [current EXCEPT
                                  ![findIndex(current, req[p].messageId)] = um],
                    ![p].ok = [success |-> TRUE, messageData |-> um]]
    /\ Goto(p, "save")
    /\ UNCHANGED <<file, cache, now, session, runVars, req, resp, pre>>

\* await discordMessage.edit(...) resolves; the stored record is updated.
EditRemoteOk(p) ==
    /\ pc[p] = "edit_remote"
    /\ RemoteExists(req[p].messageId)
    /\ remote' = [remote EXCEPT ![req[p].messageId] =
                      EditedMessage(@, storedMessage(p), req[p])]
    /\ Call(p, EditCall(storedMessage(p), req[p]))
    /\ LET um == updatedMessage(storedMessage(p), req[p])
       IN loc' = [loc EXCEPT
                    ![p].out = [loc[p].messages EXCEPT ![loc[p].messageIndex] = um],
                    ![p].ok = [success |-> TRUE, messageData |-> um]]
    /\ Goto(p, "save")
    /\ UNCHANGED <<file, cache, now, session, runVars, req, resp, pre>>

\* A route that has written the updated record before the remote edit rejects.
EditRemoteFailAfterSave(p) ==
    /\ pc[p] = "edit_remote"
    /\ Call(p, EditCall(storedMessage(p), req[p]))
    /\ file' = Json([loc[p].messages EXCEPT ![loc[p].messageIndex] =
                        updatedMessage(storedMessage(p), req[p])])
    /\ Respond(p, 500, ErrorBody("edit"))
    /\ UNCHANGED <<envVars, req, loc, pre>>

\* await discordMessage.edit(...) rejects.
EditRemoteFail(p) ==
    /\ pc[p] = "edit_remote"
    /\ Call(p, EditCall(storedMessage(p), req[p]))
    /\ Respond(p, 500, ErrorBody("edit"))
    /\ UNCHANGED <<file, envVars, req, loc, pre>>

\* ------------------------------------------------------------- DELETE /api/delete-message/:messageId
DeleteMessageBegin(p) ==
    \/ Unauthorized(p, "delete")
    \/ \E m \in MessageIds :
        /\ requireAuth
        /\ Arrive(p, [NoReq EXCEPT !.op = "delete", !.messageId = m])
        /\ Goto(p, "delete_load")
        /\ UNCHANGED <<file, remote, cache, now, session, loc, resp, calls>>

\* Array.prototype.filter(msg => msg.id !== id)
RECURSIVE filterOut(_, _)
filterOut(ms, id) ==
    IF ms = <<>> THEN <<>>
    ELSE IF Head(ms).id # id THEN <<Head(ms)>> \o filterOut(Tail(ms), id)
    ELSE filterOut(Tail(ms), id)

\* A delete that also retracts the message on the platform.
DeleteLoadRetracts(p) ==
    /\ pc[p] = "delete_load"
    /\ LET loaded == loadMessages(file)
           messages == loaded.value
           filteredMessages == filterOut(messages, req[p].messageId)
       IN IF Len(messages) = Len(filteredMessages)
            THEN /\ Respond(p, 404, "Message not found")
                 /\ Call(p, "readFile")
                 /\ UNCHANGED <<loc, remote>>
            ELSE /\ loc' = [loc EXCEPT ![p].messages = messages,
                                       ![p].out = filteredMessages,
                                       ![p].ok = [success |-> TRUE]]
                 /\ calls' = [calls EXCEPT ![p] = @ \o <<"readFile", "delete">>]
                 /\ remote' = [i \in DOMAIN remote |->
                                  IF i = req[p].messageId
                                    THEN [remote[i] EXCEPT !.exists = FALSE]
                                    ELSE remote[i]]
                 /\ Goto(p, "save")
                 /\ UNCHANGED resp
    /\ UNCHANGED <<file, cache, now, session, runVars, req, pre>>

\* A delete that saves whether or not a record matched.
DeleteLoadAlwaysSaves(p) ==
    /\ pc[p] = "delete_load"
    /\ Call(p, "readFile")
    /\ LET loaded == loadMessages(file)
           messages == loaded.value
           filteredMessages == filterOut(messages, req[p].messageId)
       IN /\ loc' = [loc EXCEPT ![p].messages = messages,
                                ![p].out = filteredMessages,
                                ![p].ok = [success |-> TRUE]]
          /\ Goto(p, "save")
          /\ UNCHANGED resp
    /\ UNCHANGED <<file, envVars, req, pre>>

\* await loadMessages() resolves; the record is filtered out.
DeleteLoad(p) ==
    /\ pc[p] = "delete_load"
    /\ Call(p, "readFile")
    /\ LET loaded == loadMessages(file)
           messages == loaded.value
           filteredMessages == filterOut(messages, req[p].messageId)
       IN IF loaded.threw
            THEN Respond(p, 500, ErrorBody("delete")) /\ UNCHANGED loc
          ELSE IF Len(messages) = Len(filteredMessages)
            THEN Respond(p, 404, "Message not found") /\ UNCHANGED loc
            ELSE /\ loc' = [loc EXCEPT ![p].messages = messages,
                                       ![p].out = filteredMessages,
                                       ![p].ok = [success |-> TRUE]]
                 /\ Goto(p, "save")
                 /\ UNCHANGED resp
    /\ UNCHANGED <<file, envVars, req, pre>>

\* The response is out; the slot is free again.
Finish(p) ==
    /\ pc[p] = "done"
    /\ pc' = [pc EXCEPT ![p] = "idle"]
    /\ req' = [req EXCEPT ![p] = NoReq]
    /\ loc' = [loc EXCEPT ![p] = NoLoc]
    /\ resp' = [resp EXCEPT ![p] = NoResp]
    /\ pre' = [pre EXCEPT ![p] = NoPre]
    /\ calls' = [calls EXCEPT ![p] = <<>>]
    /\ UNCHANGED <<file, envVars>>

\* ------------------------------------------------------------- sessions
\* The credentials a login request carries: a missing username, a missing
\* password, an unknown username, a wrong password, a password bcrypt throws
\* on, and the right ones.
LoginBodies ==
    { [NoReq EXCEPT !.op = "login", !.username = c[1], !.password = c[2]] :
        c \in { <<"", "staff123">>, <<"staff", "">>, <<"eve", "staff123">>,
                <<"staff", "bad">>, <<"staff", NotAString>>,
                <<"staff", "staff123">> } }

\* A login that accepts whatever password comes with a known username.
LoginCompareAcceptsAny(p) ==
    /\ pc[p] = "login_compare"
    /\ session' = [authenticated |-> TRUE, username |-> req[p].username]
    /\ Respond(p, 200, [success |-> TRUE, username |-> req[p].username])
    /\ UNCHANGED <<file, remote, cache, now, runVars, req, loc, pre, calls>>

\* POST /api/login up to the await: the field check and the user lookup.
Login(p) ==
    \E r \in LoginBodies :
        /\ r.username \in Usernames /\ r.password \in Passwords
        /\ ArriveSession(p, r)
        /\ IF r.username = "" \/ r.password = ""
             THEN Respond(p, 400, "Username and password required")
           ELSE IF r.username \notin DOMAIN StaffUsers
             THEN Respond(p, 401, "Invalid credentials")
           ELSE Goto(p, "login_compare") /\ UNCHANGED resp
        /\ UNCHANGED <<file, remote, cache, now, session, loc, calls>>

\* await bcrypt.compare(password, hashedPassword) settles.
LoginCompare(p) ==
    /\ pc[p] = "login_compare"
    /\ IF BcryptThrows(req[p].password)
         THEN Respond(p, 500, "Login failed") /\ UNCHANGED session
       ELSE IF BcryptCompare(req[p].password, StaffUsers[req[p].username])
         THEN /\ session' = [authenticated |-> TRUE, username |-> req[p].username]
              /\ Respond(p, 200, [success |-> TRUE, username |-> req[p].username])
       ELSE Respond(p, 401, "Invalid credentials") /\ UNCHANGED session
    /\ UNCHANGED <<file, remote, cache, now, runVars, req, loc, pre, calls>>

\* POST /api/logout: req.session.destroy drops the session from the (memory)
\* store; the next request of the browser starts an empty one.
Logout(p) ==
    /\ session # NoSession
    /\ ArriveSession(p, [NoReq EXCEPT !.op = "logout"])
    /\ session' = NoSession
    /\ Respond(p, 200, [success |-> TRUE])
    /\ UNCHANGED <<file, remote, cache, now, loc, calls>>

\* ------------------------------------------------------------- environment
\* The wall clock advances; only its order against the requests matters, so
\* it is let advance once per request that has arrived.
Tick ==
    /\ Quiet
    /\ now < arrived
    /\ now' = now + 1
    /\ UNCHANGED <<file, remote, cache, session, pc, req, loc, resp, pre, calls, runVars>>

\* Somebody deletes a message on the platform itself.
RemoteDeleted ==
    \E id \in 1..Len(remote) :
        /\ Quiet
        /\ remote[id].exists
        /\ remote' = [remote EXCEPT ![id].exists = FALSE]
        /\ UNCHANGED <<file, cache, now, session, pc, req, loc, resp, pre, calls, runVars>>

\* The bot loses sight of the channel (removed from the guild) or regains it.
ChannelEvicted ==
    /\ Quiet
    /\ KnownChannel \in cache
    /\ cache' = cache \ {KnownChannel}
    /\ UNCHANGED <<file, remote, now, session, pc, req, loc, resp, pre, calls, runVars>>

ChannelCached ==
    /\ Quiet
    /\ KnownChannel \notin cache
    /\ cache' = cache \cup {KnownChannel}
    /\ UNCHANGED <<file, remote, now, session, pc, req, loc, resp, pre, calls, runVars>>

\* ------------------------------------------------------------- specification
Next ==
    \/ Tick
    \/ RemoteDeleted
    \/ ChannelEvicted
    \/ ChannelCached
    \/ \E p \in Procs :
        \/ Login(p)
        \/ LoginCompare(p)
        \/ Logout(p)
        \/ ListChannels(p)
        \/ SendMessageBegin(p)
        \/ SendRemoteOk(p)
        \/ SendRemoteFail(p)
        \/ SendLoad(p)
        \/ ListMessagesBegin(p)
        \/ ListMessagesLoad(p)
        \/ EditMessageBegin(p)
        \/ EditLoad(p)
        \/ EditFetch(p)
        \/ EditRemoteOk(p)
        \/ EditRemoteFail(p)
        \/ DeleteMessageBegin(p)
        \/ DeleteLoad(p)
        \/ SaveOpenFail(p)
        \/ SaveTruncate(p)
        \/ SaveWriteFail(p)
        \/ SaveWriteOk(p)
        \/ Finish(p)

\* Requests served one at a time (a single staff operator).
Spec == Init /\ [][Next]_vars

\* The dashboard after a login and two sends, a plain one and an embed, with
\* handlers of up to two requests interleaving at their awaits.
PlainSend == [NoReq EXCEPT !.op = "send", !.channelId = KnownChannel,
                           !.content = <<"a">>]
EmbedSend == [PlainSend EXCEPT !.useEmbed = TRUE, !.title = "t1", !.color = "#1"]

InitConcurrent ==
    /\ now = 0
    /\ file = Json(<<messageData(PlainSend, 1), messageData(EmbedSend, 2)>>)
    /\ remote = <<SentMessage(PlainSend), SentMessage(EmbedSend)>>
    /\ cache = {KnownChannel}
    /\ session = [authenticated |-> TRUE, username |-> "staff"]
    /\ pc = [p \in Procs |-> "idle"]
    /\ req = [p \in Procs |-> NoReq]
    /\ loc = [p \in Procs |-> NoLoc]
    /\ resp = [p \in Procs |-> NoResp]
    /\ pre = [p \in Procs |-> NoPre]
    /\ calls = [p \in Procs |-> <<>>]
    /\ arrived = 0
    /\ inFlightMax = 2

SpecConcurrent == InitConcurrent /\ [][Next]_vars

\* ------------------------------------------------------------- properties
\* The records the file holds: none when it is missing or does not parse.
Records(f) == IF f.kind = "json" THEN f.data ELSE <<>>

WithId(ms, id) == {i \in 1..Len(ms) : ms[i].id = id}
RecordOf(ms, id) == ms[CHOOSE i \in WithId(ms, id) : TRUE]

\* ms without the records whose id is id.
Without(ms, id) ==
    LET Keep(m) == m.id # id IN SelectSeq(ms, Keep)

\* The handler in slot p has answered a request of route op.
Done(p, op) == pc[p] = "done" /\ req[p].op = op

\* The handler in slot p called the platform.
RemoteCalls(p) ==
    {i \in 1..Len(calls[p]) : calls[p][i] \notin {"readFile", "writeFile"}}

\* C1 (as stated): every send that passes validation and whose remote send
\* succeeds returns a record with the id the platform assigned, and the store
\* then lists exactly one record with that id.
C1_SendAlwaysReturnsRecord ==
    \A p \in Procs :
        (Done(p, "send") /\ loc[p].message # 0) =>
            /\ resp[p].status = 200
            /\ resp[p].body.messageData.id = loc[p].message
            /\ Cardinality(WithId(Records(file), loc[p].message)) = 1

\* C1 (amended): a send that answers success (validation passed, the remote
\* send succeeded and the file was written) returns a record whose id is the
\* one the platform assigned to the message it just created, and the store
\* then lists exactly one record with that id; list-messages answers with
\* the records of the file.
C1_SuccessfulSendReturnsRemoteId ==
    \A p \in Procs :
        /\ (Done(p, "send") /\ resp[p].status = 200) =>
              /\ loc[p].message = Len(pre[p].remote) + 1
              /\ loc[p].message \in DOMAIN remote
              /\ resp[p].body.messageId = loc[p].message
              /\ resp[p].body.messageData.id = loc[p].message
              /\ Cardinality(WithId(Records(file), loc[p].message)) = 1
        /\ (Done(p, "list") /\ resp[p].status = 200) =>
              resp[p].body = Records(file)

\* A send succeeded into a store that already held a record.
C1_Witness ==
    \E p \in Procs :
        /\ Done(p, "send") /\ resp[p].status = 200
        /\ Len(Records(pre[p].file)) = 1
        /\ Len(Records(file)) = 2

\* C2: after a successful edit the stored content is the trimmed input
\* content, and lastEdited is set to an instant not before the timestamp.
C2_EditStoresTrimmedContent ==
    \A p \in Procs :
        (Done(p, "edit") /\ resp[p].status = 200) =>
            LET id == req[p].messageId
                new == RecordOf(Records(file), id)
                old == RecordOf(Records(pre[p].file), id)
            IN /\ new.content = Trim(req[p].content)
               /\ "lastEdited" \in DOMAIN new
               /\ new.lastEdited >= old.timestamp

\* C3: a successful edit keeps the stored title (color) when the request's
\* title (color) is empty or absent, and stores the request's otherwise.
C3_EditFallsBackToStoredStyle ==
    \A p \in Procs :
        (Done(p, "edit") /\ resp[p].status = 200) =>
            LET id == req[p].messageId
                new == RecordOf(Records(file), id)
                old == RecordOf(Records(pre[p].file), id)
            IN /\ new.title = IF req[p].title \in {NULL, ""}
                                THEN old.title ELSE req[p].title
               /\ new.color = IF req[p].color \in {NULL, ""}
                                THEN old.color ELSE req[p].color

\* An edit with an empty title and a new color succeeded on a record that had
\* both: the title was kept and the color replaced.
C3_Witness ==
    \E p \in Procs :
        /\ Done(p, "edit") /\ resp[p].status = 200
        /\ req[p].title = "" /\ req[p].color = "#2"
        /\ RecordOf(Records(pre[p].file), req[p].messageId).title = "t1"
        /\ RecordOf(Records(pre[p].file), req[p].messageId).color = "#1"
        /\ RecordOf(Records(file), req[p].messageId).title = "t1"
        /\ RecordOf(Records(file), req[p].messageId).color = "#2"

\* C4: a successful delete leaves the store without the record of that id
\* (and with every other record), calls nothing on the platform, and leaves
\* the platform's messages as they were.
C4_DeleteIsLocalOnly ==
    \A p \in Procs :
        (Done(p, "delete") /\ resp[p].status = 200) =>
            /\ WithId(Records(pre[p].file), req[p].messageId) # {}
            /\ Records(file) = Without(Records(pre[p].file), req[p].messageId)
            /\ RemoteCalls(p) = {}
            /\ remote = pre[p].remote

\* A delete succeeded for a record whose remote message still exists.
C4_Witness ==
    \E p \in Procs :
        /\ Done(p, "delete") /\ resp[p].status = 200
        /\ req[p].messageId \in DOMAIN remote
        /\ remote[req[p].messageId].exists
        /\ Records(file) = <<>>

\* C5: with the file missing or unparsable, no route fails on the load: list
\* answers the empty sequence, edit and delete answer not-found without
\* touching the file, and a send stores its record as the only one.
C5_LoadNeverFails ==
    \A p \in Procs :
        pre[p].file.kind # "json" =>
            /\ (Done(p, "list") /\ resp[p].status # 401) =>
                  resp[p].status = 200 /\ resp[p].body = <<>>
            /\ (Done(p, "edit") /\ resp[p].status \notin {400, 401}) =>
                  resp[p].status = 404 /\ file = pre[p].file
            /\ (Done(p, "delete") /\ resp[p].status # 401) =>
                  resp[p].status = 404 /\ file = pre[p].file
            /\ (req[p].op = "send" /\ pc[p] \in {"save", "write"}) =>
                  loc[p].out = <<loc[p].ok.messageData>>
            /\ (Done(p, "send") /\ resp[p].status = 200) =>
                  Records(file) = <<resp[p].body.messageData>>

\* list-messages answered the empty sequence from an unparsable file.
C5_Witness ==
    \E p \in Procs :
        /\ Done(p, "list") /\ resp[p].status = 200
        /\ pre[p].file.kind = "garbage"
        /\ resp[p].body = <<>>

\* The remote side of the send in slot p failed: the channel was not in the
\* cache, or channel.send rejected.
RemoteSendFailed(p) ==
    /\ Done(p, "send")
    /\ resp[p].status \notin {400, 401}
    /\ loc[p].message = 0

\* C6: when the remote side of a send fails, the caller gets a failure
\* response, the file and the platform are as before the call, and the send
\* was attempted at most once.
C6_FailedSendStoresNothing ==
    \A p \in Procs :
        RemoteSendFailed(p) =>
            /\ resp[p].status \in {404, 500}
            /\ file = pre[p].file
            /\ remote = pre[p].remote
            /\ calls[p] \in {<<>>, <<"send">>}

\* channel.send rejected while the store held a record.
C6_Witness ==
    \E p \in Procs :
        /\ RemoteSendFailed(p)
        /\ resp[p].status = 500
        /\ calls[p] = <<"send">>
        /\ Len(Records(file)) = 1

\* C7: a send whose content is empty after trimming, or whose channelId is
\* missing, is answered with the validation error; nothing is sent to the
\* platform and nothing is stored.  (Stated for sends from an authenticated
\* session that are not turned away for an unknown channel.)
C7_BlankSendRejected ==
    \A p \in Procs :
        (/\ Done(p, "send")
         /\ resp[p].status \notin {401, 404}
         /\ (Trim(req[p].content) = <<>> \/ req[p].channelId \in {NULL, ""})) =>
            /\ resp[p].status = 400
            /\ calls[p] = <<>>
            /\ file = pre[p].file
            /\ remote = pre[p].remote

\* C8: an edit that reaches the lookup (authenticated, content present) with
\* an id no stored record has is answered not-found; nothing is fetched or
\* edited on the platform and the file is not changed.
C8_EditUnknownIdNotFound ==
    \A p \in Procs :
        (/\ Done(p, "edit")
         /\ resp[p].status \notin {400, 401}
         /\ WithId(Records(pre[p].file), req[p].messageId) = {}) =>
            /\ resp[p].status = 404
            /\ RemoteCalls(p) = {}
            /\ file = pre[p].file
            /\ remote = pre[p].remote

\* An edit named an id the non-empty store does not hold.
C8_Witness ==
    \E p \in Procs :
        /\ Done(p, "edit") /\ resp[p].status = 404
        /\ Records(file) # <<>>
        /\ WithId(Records(file), req[p].messageId) = {}

\* C9: an edit of a stored record whose remote message was deleted
\* out-of-band is answered not-found (404), and the file is not changed.
C9_EditOfRetractedMessageNotFound ==
    \A p \in Procs :
        (/\ Done(p, "edit")
         /\ resp[p].status \notin {400, 401}
         /\ WithId(Records(pre[p].file), req[p].messageId) # {}
         /\ req[p].messageId \in DOMAIN pre[p].remote
         /\ ~pre[p].remote[req[p].messageId].exists
         /\ "fetch" \in {calls[p][i] : i \in 1..Len(calls[p])}) =>
            /\ resp[p].status = 404
            /\ file = pre[p].file

\* C10: a delete with an id no stored record has is answered not-found and
\* does not write the file.
C10_DeleteUnknownIdNotFound ==
    \A p \in Procs :
        (/\ Done(p, "delete")
         /\ resp[p].status # 401
         /\ WithId(Records(pre[p].file), req[p].messageId) = {}) =>
            /\ resp[p].status = 404
            /\ file = pre[p].file
            /\ calls[p] = <<"readFile">>

\* A delete named an id the non-empty store does not hold.
C10_Witness ==
    \E p \in Procs :
        /\ Done(p, "delete") /\ resp[p].status = 404
        /\ Records(file) # <<>>
        /\ WithId(Records(file), req[p].messageId) = {}

\* C11: a send that succeeds while the store already holds a record sent with
\* identical arguments creates a further remote message with an id of its
\* own and adds a second record: the earlier record and the earlier remote
\* message stay as they were, and each id has exactly one record.
C11_RepeatedSendAddsSecondRecord ==
    \A p \in Procs :
        (Done(p, "send") /\ resp[p].status = 200) =>
            \A i \in 1..Len(Records(pre[p].file)) :
                LET old == Records(pre[p].file)[i]
                    new == resp[p].body.messageData
                IN SameArguments(old, req[p]) =>
                      /\ new.id # old.id
                      /\ SameArguments(new, req[p])
                      /\ remote = Append(pre[p].remote, SentMessage(req[p]))
                      /\ Records(file) = Append(Records(pre[p].file), new)
                      /\ WithId(Records(file), old.id) = {i}
                      /\ Cardinality(WithId(Records(file), new.id)) = 1

\* The same embed was sent twice, both sends succeeding: two remote messages
\* and two records that differ in their ids only.
C11_Witness ==
    \E p \in Procs :
        /\ Done(p, "send") /\ resp[p].status = 200
        /\ req[p].useEmbed /\ req[p].title = "t1"
        /\ Len(Records(file)) = 2
        /\ SameArguments(Records(file)[1], req[p])
        /\ SameArguments(Records(file)[2], req[p])
        /\ Records(file)[1].id # Records(file)[2].id
        /\ Len(remote) = 2
        /\ remote[1] = remote[2]

\* Two edits of different records, the only requests so far, have both
\* answered success after loading the same collection.
BothEditedFromSameLoad(p, q) ==
    /\ p # q
    /\ arrived = 2
    /\ Done(p, "edit") /\ resp[p].status = 200
    /\ Done(q, "edit") /\ resp[q].status = 200
    /\ req[p].messageId # req[q].messageId
    /\ loc[p].messages = loc[q].messages

\* C12: no lock orders the mutating routes, so an update can be lost: when
\* two concurrent edits of different records have both loaded the collection
\* before either saved it and both answer success, the file is the collection
\* of the edit that saved last, in which the other edit's record is still as
\* it was loaded; the store reflects only one of the two edits.
C12_SecondSaveOverwritesFirstEdit ==
    \A p, q \in Procs :
        BothEditedFromSameLoad(p, q) =>
            \E w \in {p, q} :
                LET l == CHOOSE x \in {p, q} : x # w
                IN /\ file = Json(loc[w].out)
                   /\ RecordOf(Records(file), req[w].messageId) =
                          resp[w].body.messageData
                   /\ RecordOf(Records(file), req[l].messageId) =
                          RecordOf(loc[l].messages, req[l].messageId)
                   /\ RecordOf(Records(file), req[l].messageId) #
                          resp[l].body.messageData

\* Both edits answered success and changed their remote messages, and the
\* stored record of the first was never edited.
C12_Witness ==
    \E p, q \in Procs :
        /\ BothEditedFromSameLoad(p, q)
        /\ req[p].messageId = 1 /\ req[q].messageId = 2
        /\ remote[1].content = <<"b">>
        /\ remote[2].embed.description = <<"b">>
        /\ "lastEdited" \notin DOMAIN RecordOf(Records(file), 1)
        /\ RecordOf(Records(file), 1).content = <<"a">>
        /\ RecordOf(Records(file), 2).content = <<"b">>

ProtectedOps == {"channels", "send", "list", "edit", "delete"}

\* C13: list channels, send, list messages, edit and delete are served only to
\* an authenticated session: a request from a session that is not
\* authenticated is answered 401, calls nothing on the platform, and neither
\* reads nor changes the file; 401 is answered to no authenticated session.
C13_ProtectedRoutesRequireSession ==
    \A p \in Procs :
        (pc[p] = "done" /\ req[p].op \in ProtectedOps) =>
            /\ ~session.authenticated =>
                  /\ resp[p].status = 401
                  /\ resp[p].body = "Authentication required"
                  /\ calls[p] = <<>>
                  /\ file = pre[p].file
                  /\ remote = pre[p].remote
            /\ session.authenticated => resp[p].status # 401

\* After a logout, an edit was turned away while the store held a record
\* whose remote message exists.
C13_Witness ==
    \E p \in Procs :
        /\ Done(p, "edit") /\ resp[p].status = 401
        /\ ~session.authenticated
        /\ Len(Records(file)) = 1
        /\ RemoteExists(1)

\* The stored record m and the remote message d show the same thing: the same
\* shape, the same content, and for an embed the same title and color.
Agrees(m, d) ==
    IF m.isEmbed
      THEN /\ d.embed.present
           /\ d.embed.description = m.content
           /\ d.embed.title = m.title
           /\ d.embed.color = m.color
      ELSE /\ ~d.embed.present
           /\ d.content = m.content

\* C14: after a successful send or edit, the stored record agrees with the
\* remote message of the same id, as long as that message exists.
C14_StoreAgreesWithRemote ==
    \A p \in Procs :
        (/\ Done(p, "send") \/ Done(p, "edit")
         /\ resp[p].status = 200
         /\ RemoteExists(resp[p].body.messageData.id)) =>
            Agrees(RecordOf(Records(file), resp[p].body.messageData.id),
                   remote[resp[p].body.messageData.id])

\* The calls of the handler in slot p that are named c.
CallsOf(p, c) == {i \in 1..Len(calls[p]) : calls[p][i] = c}

\* C15: after a successful edit the stored isEmbed is true exactly when the
\* record was an embed before or it has a non-empty title or color after the
\* fallback to the stored values; the one remote edit carried an embed in
\* exactly that case and the bare content otherwise; an edit without title
\* and color of a record that is no embed leaves isEmbed false.
C15_EditedShapeFollowsStyle ==
    \A p \in Procs :
        (Done(p, "edit") /\ resp[p].status = 200) =>
            LET id == req[p].messageId
                new == RecordOf(Records(file), id)
                old == RecordOf(Records(pre[p].file), id)
                styled == Truthy(new.title) \/ Truthy(new.color)
            IN /\ new.isEmbed = (old.isEmbed \/ styled)
               /\ new.isEmbed =>
                     /\ Cardinality(CallsOf(p, "edit:embeds")) = 1
                     /\ CallsOf(p, "edit:content") = {}
               /\ ~new.isEmbed =>
                     /\ Cardinality(CallsOf(p, "edit:content")) = 1
                     /\ CallsOf(p, "edit:embeds") = {}
               /\ (~old.isEmbed /\ ~Truthy(req[p].title) /\ ~Truthy(req[p].color)) =>
                     ~new.isEmbed

\* An edit with a title and no color turned a plain record into an embed.
C15_Witness ==
    \E p \in Procs :
        /\ Done(p, "edit") /\ resp[p].status = 200
        /\ ~RecordOf(Records(pre[p].file), req[p].messageId).isEmbed
        /\ req[p].title = "t2" /\ req[p].color = NULL
        /\ RecordOf(Records(file), req[p].messageId).isEmbed
        /\ CallsOf(p, "edit:embeds") # {}

\* Every request that has arrived is still in its slot (none has been
\* forgotten), so the slots show all the calls made so far.
AllHere == Cardinality(InFlight) = arrived

\* C16: a record persisted by a successful send stays in the store until a
\* delete for its id succeeds: while no delete for that id has been called
\* and the file is readable, the file holds the record.
C16_RecordLeavesOnlyByDelete ==
    \A p \in Procs :
        (/\ Done(p, "send") /\ resp[p].status = 200
         /\ AllHere
         /\ \A q \in Procs :
               ~(req[q].op = "delete" /\ req[q].messageId = resp[p].body.messageId)
         /\ file.kind = "json") =>
            WithId(Records(file), resp[p].body.messageId) # {}

\* C17: saveMessages replaces the file atomically as callers see it: a
\* list-messages call that loads while the save of the only other request is
\* in progress is answered either the complete collection from before that
\* save or the complete collection being saved.
C17_LoadSeesOldOrNewCollection ==
    \A p, q \in Procs :
        (/\ AllHere
         /\ pc[p] = "write"
         /\ Done(q, "list") /\ resp[q].status = 200) =>
            resp[q].body \in {Records(pre[p].file), loc[p].out}

\* The remote edit of the handler in slot p succeeded and its save failed.
EditPersistFailed(p) ==
    /\ Done(p, "edit")
    /\ resp[p].status # 200
    /\ CallsOf(p, "writeFile") # {}

\* C18: when the remote edit succeeds and the save that follows fails, the
\* edit answers failure, the store still holds the record with its old
\* content, title, color and lastEdited, the remote message carries the new
\* content, and nothing is retried or compensated.
C18_FailedPersistKeepsStoredRecord ==
    \A p \in Procs :
        EditPersistFailed(p) =>
            LET id == req[p].messageId
                old == RecordOf(Records(pre[p].file), id)
            IN /\ resp[p].status = 500
               /\ remote[id] = EditedMessage(pre[p].remote[id], old, req[p])
               /\ calls[p] = <<"readFile", "fetch", EditCall(old, req[p]), "writeFile">>
               /\ WithId(Records(file), id) # {}
               /\ RecordOf(Records(file), id) = old

\* The fields an edit may not change.
FrameFields == {"id", "channelId", "channelName", "guildId", "guildName", "timestamp"}

\* Every record of the collection old is in the file, at its place and
\* unchanged, except the one whose id is id.
OthersKept(old, id) ==
    /\ Len(Records(file)) >= Len(old)
    /\ \A i \in 1..Len(old) : old[i].id # id => Records(file)[i] = old[i]

\* C19: a successful edit leaves id, channelId, channelName, guildId,
\* guildName and timestamp of the record as they were, adds no field but
\* lastEdited, and leaves every other record alone; an edit that does not
\* succeed leaves the file as it was (or unreadable, when its write failed),
\* so it sets no lastEdited; a record as a send stores it has no lastEdited,
\* and a send changes no record already stored.
C19_EditKeepsIdentityFields ==
    \A p \in Procs :
        /\ (Done(p, "edit") /\ resp[p].status = 200) =>
              LET id == req[p].messageId
                  new == RecordOf(Records(file), id)
                  old == RecordOf(Records(pre[p].file), id)
              IN /\ \A f \in FrameFields : new[f] = old[f]
                 /\ DOMAIN new = DOMAIN old \cup {"lastEdited"}
                 /\ new.lastEdited = now
                 /\ Len(Records(file)) = Len(Records(pre[p].file))
                 /\ OthersKept(Records(pre[p].file), id)
        /\ (Done(p, "edit") /\ resp[p].status # 200) =>
              \/ file = pre[p].file
              \/ file = Garbage /\ CallsOf(p, "writeFile") # {}
        /\ (Done(p, "send") /\ resp[p].status = 200) =>
              /\ "lastEdited" \notin DOMAIN RecordOf(Records(file), resp[p].body.messageId)
              /\ FrameFields \subseteq DOMAIN RecordOf(Records(file), resp[p].body.messageId)
              /\ OthersKept(Records(pre[p].file), resp[p].body.messageId)

\* A record created at one instant was edited at a later one: its timestamp
\* is the old one and its lastEdited the new.
C19_Witness ==
    \E p \in Procs :
        /\ Done(p, "edit") /\ resp[p].status = 200
        /\ RecordOf(Records(file), req[p].messageId).timestamp = 0
        /\ RecordOf(Records(file), req[p].messageId).lastEdited = 1
        /\ RecordOf(Records(file), req[p].messageId).content # 
              RecordOf(Records(pre[p].file), req[p].messageId).content

\* C20: once a delete of an id has answered success, the store holds no
\* record with that id (so no later list-messages call returns one), also
\* when an edit of that id had loaded the collection before the delete and
\* saves afterwards.  (Stated for a delete that is the only call so far or
\* overlaps an edit of the same id.)
C20_DeletedRecordStaysDeleted ==
    \A p \in Procs :
        (/\ Done(p, "delete") /\ resp[p].status = 200
         /\ AllHere
         /\ \A q \in Procs \ {p} :
               \/ pc[q] = "idle"
               \/ req[q].op = "edit" /\ req[q].messageId = req[p].messageId) =>
            WithId(Records(file), req[p].messageId) = {}

\* The last call the handler in slot p made ("" when it made none).
LastCall(p) == IF calls[p] = <<>> THEN "" ELSE calls[p][Len(calls[p])]

\* The remote step of the edit in slot p failed: the channel of the stored
\* record was not in the cache, the fetch rejected, or the remote edit
\* rejected.
RemoteEditFailed(p) ==
    /\ Done(p, "edit")
    /\ WithId(Records(pre[p].file), req[p].messageId) # {}
    /\ \/ resp[p].status = 404 /\ resp[p].body = "Channel not found"
       \/ resp[p].status # 200 /\ LastCall(p) \in {"fetch", "edit:embeds", "edit:content"}

\* C21: when the remote step of an edit fails, the edit answers failure and
\* the file is not written: every stored record, the targeted one and its
\* lastEdited included, is as it was before the call.
C21_FailedRemoteEditWritesNothing ==
    \A p \in Procs :
        RemoteEditFailed(p) =>
            /\ resp[p].status \in {404, 500}
            /\ file = pre[p].file
            /\ CallsOf(p, "writeFile") = {}
            /\ RecordOf(Records(file), req[p].messageId) =
                   RecordOf(Records(pre[p].file), req[p].messageId)

\* The remote edit of a stored record rejected: the record has no lastEdited.
C21_Witness ==
    \E p \in Procs :
        /\ RemoteEditFailed(p)
        /\ resp[p].status = 500
        /\ LastCall(p) = "edit:embeds"
        /\ "lastEdited" \notin DOMAIN RecordOf(Records(file), req[p].messageId)

\* A record that is no embed has neither title nor color.
PlainHasNoStyle(m) == ~m.isEmbed => (m.title = NULL /\ m.color = NULL)

\* C22: in every state of the store, and in every collection a handler is
\* about to save, a record whose isEmbed is not true has no title and no
\* color.
C22_PlainRecordHasNoStyle ==
    /\ \A i \in 1..Len(Records(file)) : PlainHasNoStyle(Records(file)[i])
    /\ \A p \in Procs :
          pc[p] \in {"save", "write"} =>
              \A i \in 1..Len(loc[p].out) : PlainHasNoStyle(loc[p].out[i])

\* An edit with a title has made a plain record, stored without a title, an
\* embed with that title.
C22_Witness ==
    \E p \in Procs :
        /\ Done(p, "edit") /\ resp[p].status = 200
        /\ req[p].title = "t2"
        /\ ~RecordOf(Records(pre[p].file), req[p].messageId).isEmbed
        /\ RecordOf(Records(pre[p].file), req[p].messageId).title = NULL
        /\ RecordOf(Records(file), req[p].messageId).isEmbed
        /\ RecordOf(Records(file), req[p].messageId).title = "t2"

\* The request carries a known username and the matching password.
KnownCredentials(r) == r.username = "staff" /\ r.password = "staff123"

\* What the session is once a login, a logout or a protected request has
\* been answered.
SessionAnswers ==
    \A p \in Procs :
        /\ Done(p, "login") =>
              /\ resp[p].status = 200 <=> KnownCredentials(req[p])
              /\ KnownCredentials(req[p]) =>
                    session = [authenticated |-> TRUE, username |-> req[p].username]
              /\ ~KnownCredentials(req[p]) =>
                    /\ resp[p].status \in {400, 401, 500}
                    /\ session = pre[p].session
        /\ Done(p, "logout") =>
              /\ resp[p].status = 200
              /\ ~session.authenticated
        /\ (pc[p] = "done" /\ req[p].op \in ProtectedOps /\ ~session.authenticated) =>
              resp[p].status = 401

\* The session changes only when a login with known credentials completes
\* (it becomes authenticated) or a logout is served (it stops being so).
SessionStep ==
    session' # session =>
        \E p \in Procs :
            \/ /\ req[p].op = "login" /\ KnownCredentials(req[p])
               /\ pc[p] = "login_compare" /\ pc'[p] = "done"
               /\ session'.authenticated
            \/ /\ req'[p].op = "logout" /\ pc'[p] = "done"
               /\ ~session'.authenticated

\* C23: the session is authenticated exactly when the last event that
\* changed it is a login with a known username and the matching password: a
\* login with a missing field, an unknown username, a wrong password or a
\* password the comparison throws on leaves the session as it was, a logout
\* leaves it unauthenticated, nothing else changes it, and while it is
\* unauthenticated every protected route answers 401.
C23_SessionFollowsLoginAndLogout == []SessionAnswers /\ [][SessionStep]_vars

\* After a login, a send and a logout, a login with a wrong password was
\* turned away and the session is still unauthenticated.
C23_Witness ==
    \E p \in Procs :
        /\ Done(p, "login") /\ resp[p].status = 401
        /\ req[p].username = "staff" /\ req[p].password = "bad"
        /\ ~session.authenticated
        /\ Len(Records(file)) = 1

====
